---------------------------- MODULE Spec2Model ----------------------------
(***************************************************************************)
(* Model of python_skeleton/player.py: the Player pokerbot.                *)
(*                                                                         *)
(*  - evaluate_hand is a pure function on lists of integer cards           *)
(*    (suit = card % 4, value = card // 4).                                *)
(*  - monte_carlo_hand_strength is modelled step by step (one step per     *)
(*    statement group of the trial loop) inside get_action.                *)
(*  - get_action, handle_new_round and handle_round_over are the callbacks *)
(*    the runner invokes on the Player object.                             *)
(*                                                                         *)
(* Two specifications are defined:                                         *)
(*    Spec      the Player object driven by the runner's callbacks;        *)
(*    SpecEval  evaluate_hand applied to bounded inputs.                   *)
(***************************************************************************)
EXTENDS Integers, Sequences, FiniteSets

VARIABLES
    \* ---- Player object and the runner's position (Spec) ----
    log,              \* self.log
    opponent_model,   \* self.opponent_model (keys inserted so far -> value)
    pc,               \* position inside the running callback
    in_round,         \* runner: a round is in progress
    round_num,        \* runner: game_state.round_num
    observation,      \* argument of the running get_action call
    deck,             \* monte_carlo_hand_strength local
    my_values,        \* monte_carlo_hand_strength local
    board_values,     \* monte_carlo_hand_strength local
    opponent_hand,    \* trial local
    remaining_cards,  \* trial local
    community_cards,  \* trial local
    win_count,        \* monte_carlo_hand_strength local
    trial,            \* number of completed loop iterations
    hand_strength,    \* get_action local: the estimate returned to it
    ret,              \* value returned by the last callback
    raised,           \* exception that left the last callback, if any
    \* ---- evaluate_hand applied to inputs (SpecEval) ----
    hand,             \* argument hand
    community,        \* argument community_cards
    result,           \* outcome of the last evaluate_hand call
    first_result,     \* outcome of the first call on this multiset of cards
    pcE,              \* "input" before the call, "done" after it
    rearranged        \* number of rearrangements applied to the input

vars == <<log, opponent_model, pc, in_round, round_num, observation, deck,
          my_values, board_values, opponent_hand, remaining_cards,
          community_cards, win_count, trial, hand_strength, ret,
          raised,
          hand, community, result, first_result, pcE, rearranged>>

playerVars == <<log, opponent_model, pc, in_round, round_num, observation,
                deck, my_values, board_values, opponent_hand,
                remaining_cards, community_cards, win_count, trial,
                hand_strength, ret, raised>>

evalVars == <<hand, community, result, first_result, pcE, rearranged>>

-----------------------------------------------------------------------------
(* List helpers: Python list operations used by the code.                  *)

Range(s) == {s[i] : i \in 1..Len(s)}

\* list.count(x)
Count(s, x) == Cardinality({i \in 1..Len(s) : s[i] = x})

\* x in list
In(x, s) == \E i \in 1..Len(s) : s[i] = x

SetMax(S) == CHOOSE m \in S : \A x \in S : x <= m

SetMin(S) == CHOOSE m \in S : \A x \in S : m <= x

\* the list without its element at position i
RemoveAt(s, i) == SubSeq(s, 1, i - 1) \o SubSeq(s, i + 1, Len(s))

\* list.index(x): position of the first occurrence, counted from 1 here
IndexOf(s, x) == SetMin({i \in 1..Len(s) : s[i] = x})

\* list.remove(x): drops the first occurrence of x
Remove(s, x) == RemoveAt(s, IndexOf(s, x))

\* mutant of SortedDesc: the list is left in the order it came in
Unsorted(s) == s

\* sorted(list, reverse=True)
RECURSIVE SortedDesc(_)
SortedDesc(s) ==
    IF s = <<>> THEN <<>>
    ELSE LET m == SetMax(Range(s))
         IN  <<m>> \o SortedDesc(Remove(s, m))

\* sorted(list(set(values)), reverse=True)
RECURSIVE SetSortedDesc(_)
SetSortedDesc(S) ==
    IF S = {} THEN <<>>
    ELSE LET m == SetMax(S)
         IN  <<m>> \o SetSortedDesc(S \ {m})

\* list[:5]
Take5(s) == SubSeq(s, 1, IF Len(s) < 5 THEN Len(s) ELSE 5)

\* list(range(a, a - 5, -1))
RangeDown5(a) == [k \in 1..5 |-> a - (k - 1)]

-----------------------------------------------------------------------------
(* evaluate_hand (player.py 162-222).                                      *)

\* suits = [card % 4 for card in all_cards]
suits_of(all_cards) == [i \in 1..Len(all_cards) |-> all_cards[i] % 4]

\* values = [card // 4 for card in all_cards]
values_of(all_cards) == [i \in 1..Len(all_cards) |-> all_cards[i] \div 4]

\* suit_values = [value for value, s in zip(values, suits) if s == suit]
suit_values(all_cards, suit) ==
    LET of_suit == SelectSeq(all_cards, LAMBDA card : card % 4 = suit)
    IN  [k \in 1..Len(of_suit) |-> of_suit[k] \div 4]

\* value_counts = [values.count(value) for value in range(2, 15)]
\* (position k here is Python index k - 1, the count of value k + 1)
value_counts(values) == [k \in 1..13 |-> Count(values, k + 1)]

\* value_counts.index(c), as the Python 0-based index
vc_index(vc, c) == IndexOf(vc, c) - 1

\* the suits whose five highest cards are consecutive (lines 173-178)
straight_flush_suits(all_cards) ==
    {suit \in 0..3 :
        LET sv == suit_values(all_cards, suit)
        IN  /\ Len(sv) >= 5
            /\ LET sf == Take5(SortedDesc(sv))
               IN  sf = RangeDown5(sf[1])}

\* the suits holding at least five cards (lines 190-194)
flush_suits(all_cards) ==
    {suit \in 0..3 : Len(suit_values(all_cards, suit)) >= 5}

\* the window starts i (1-based) of straight_values that are consecutive
\* (lines 197-201)
straight_starts(values) ==
    LET sv == SetSortedDesc(Range(values))
    IN  {i \in 1..(Len(sv) - 4) :
            SubSeq(sv, i, i + 4) = RangeDown5(sv[i])}

\* pairs = [value for value, count in zip(range(2, 15), value_counts)
\*          if count >= 2], sorted descending (lines 208-210)
pairs_of(vc) ==
    SetSortedDesc({v \in 2..14 : vc[v - 1] >= 2})

Returned(n) == [raises |-> "none", value |-> n]

Raises(e) == [raises |-> e, value |-> 0]

evaluate_hand(hnd, comm) ==
    LET all_cards == hnd \o comm
        values    == values_of(all_cards)
        vc        == value_counts(values)
        sf_suits  == straight_flush_suits(all_cards)
        fl_suits  == flush_suits(all_cards)
        starts    == straight_starts(values)
        pairs     == pairs_of(vc)
    IN
    IF sf_suits # {}
    THEN LET suit == SetMin(sf_suits)
         IN  Returned(8 + SortedDesc(suit_values(all_cards, suit))[1])
    ELSE IF In(4, vc)
    THEN Returned(7 + vc_index(vc, 4) * 2)
    ELSE IF In(3, vc) /\ In(2, vc)
    THEN Returned(6 + vc_index(vc, 3) * 2 + vc_index(vc, 2))
    ELSE IF fl_suits # {}
    THEN LET suit == SetMin(fl_suits)
         IN  Returned(5 + SortedDesc(suit_values(all_cards, suit))[1])
    ELSE IF starts # {}
    THEN Returned(4 + SetSortedDesc(Range(values))[SetMin(starts)])
    ELSE IF In(3, vc)
    THEN Returned(3 + vc_index(vc, 3) * 2)
    ELSE IF Len(pairs) >= 2
    THEN Returned(2 + pairs[1] * 2 + pairs[2])
    ELSE IF In(2, vc)
    THEN LET pair_value == vc_index(vc, 2) * 2
             kickers    == SortedDesc(SelectSeq(values,
                                        LAMBDA v : v # pair_value))
         IN  IF kickers = <<>>
             THEN Raises("IndexError")         \* kickers[0] on an empty list
             ELSE Returned(1 + pair_value * 2 + kickers[1])
    ELSE IF values = <<>>
    THEN Raises("IndexError")                  \* values[0] on an empty list
    ELSE Returned(SortedDesc(values)[1])

-----------------------------------------------------------------------------
(* Python floats. A float is an IEEE-754 binary64 number and every         *)
(* operation on floats returns the exact result rounded to the nearest     *)
(* number with a 53-bit significand, ties to even. The significands do not *)
(* fit a machine integer of the checker, so they are kept as lists of      *)
(* limbs. All floats of the program are finite, non-negative and far from  *)
(* the ends of the exponent range.                                         *)

\* the ints n and d of a true division n / d; FQuot gives its float
Rat(n, d) == [num |-> n, den |-> d]

\* a natural number is a list of limbs, least significant first, without
\* leading zero limbs; the empty list is 0
LimbBits == 15
LimbBase == 2^LimbBits

\* bits of the significand of a float
MantBits == 53

RECURSIVE BFromInt(_)
BFromInt(k) ==
    IF k = 0 THEN <<>> ELSE <<k % LimbBase>> \o BFromInt(k \div LimbBase)

RECURSIVE BToInt(_)
BToInt(a) == IF a = <<>> THEN 0 ELSE a[1] + LimbBase * BToInt(Tail(a))

BOne == <<1>>

RECURSIVE BNorm(_)
BNorm(a) ==
    IF a = <<>> THEN <<>>
    ELSE IF a[Len(a)] = 0 THEN BNorm(SubSeq(a, 1, Len(a) - 1))
    ELSE a

BLimb(a, i) == IF i <= Len(a) THEN a[i] ELSE 0

BRest(a) == IF a = <<>> THEN <<>> ELSE Tail(a)

\* a + b + c for a carry c
RECURSIVE BAddC(_, _, _)
BAddC(a, b, c) ==
    IF a = <<>> /\ b = <<>>
    THEN (IF c = 0 THEN <<>> ELSE <<c>>)
    ELSE LET x == BLimb(a, 1) + BLimb(b, 1) + c
         IN  <<x % LimbBase>> \o BAddC(BRest(a), BRest(b), x \div LimbBase)

BAdd(a, b) == BAddC(a, b, 0)

\* a - b - c for a >= b + c, before leading zeros are dropped
RECURSIVE BSubC(_, _, _)
BSubC(a, b, c) ==
    IF a = <<>> THEN <<>>
    ELSE LET x == a[1] - BLimb(b, 1) - c
         IN  IF x < 0
             THEN <<x + LimbBase>> \o BSubC(Tail(a), BRest(b), 1)
             ELSE <<x>> \o BSubC(Tail(a), BRest(b), 0)

BSub(a, b) == BNorm(BSubC(a, b, 0))

\* -1, 0 or 1 as a is below, equal to or above b
RECURSIVE BCmpFrom(_, _, _)
BCmpFrom(a, b, i) ==
    IF i = 0 THEN 0
    ELSE IF a[i] < b[i] THEN -1
    ELSE IF a[i] > b[i] THEN 1
    ELSE BCmpFrom(a, b, i - 1)

BCmp(a, b) ==
    IF Len(a) < Len(b) THEN -1
    ELSE IF Len(a) > Len(b) THEN 1
    ELSE BCmpFrom(a, b, Len(a))

\* a * k + c for 0 <= k, c < LimbBase
RECURSIVE BMulSmall(_, _, _)
BMulSmall(a, k, c) ==
    IF a = <<>>
    THEN (IF c = 0 THEN <<>> ELSE <<c>>)
    ELSE LET x == a[1] * k + c
         IN  <<x % LimbBase>> \o BMulSmall(Tail(a), k, x \div LimbBase)

BShiftLimb(a) == IF a = <<>> THEN <<>> ELSE <<0>> \o a

RECURSIVE BMul(_, _)
BMul(a, b) ==
    IF a = <<>> \/ b = <<>> THEN <<>>
    ELSE BAdd(BNorm(BMulSmall(a, b[1], 0)), BShiftLimb(BMul(a, Tail(b))))

\* a * 2^k
BShl(a, k) ==
    IF a = <<>> THEN <<>>
    ELSE [i \in 1..(k \div LimbBits) |-> 0]
           \o BMulSmall(a, 2^(k % LimbBits), 0)

BitLenSmall(x) == CHOOSE n \in 1..LimbBits : 2^(n - 1) <= x /\ x < 2^n

\* number of bits of a
BBitLen(a) ==
    IF a = <<>> THEN 0
    ELSE LimbBits * (Len(a) - 1) + BitLenSmall(a[Len(a)])

\* bit i of a, bit 0 the least significant
BBit(a, i) ==
    (BLimb(a, i \div LimbBits + 1) \div 2^(i % LimbBits)) % 2

\* the largest k in lo..(hi - 1) with d * k <= r, given d * lo <= r < d * hi
RECURSIVE BDigit(_, _, _, _)
BDigit(r, d, lo, hi) ==
    IF hi - lo = 1 THEN lo
    ELSE IF BCmp(BNorm(BMulSmall(d, (lo + hi) \div 2, 0)), r) <= 0
    THEN BDigit(r, d, (lo + hi) \div 2, hi)
    ELSE BDigit(r, d, lo, (lo + hi) \div 2)

\* long division, one limb of n at a time from limb i down: <<quotient,
\* remainder>> given the quotient q and remainder r of the limbs above
RECURSIVE BDivStep(_, _, _, _, _)
BDivStep(n, d, i, q, r) ==
    IF i = 0 THEN <<q, r>>
    ELSE LET r2 == BNorm(<<n[i]>> \o r)
             k == BDigit(r2, d, 0, LimbBase)
         IN  BDivStep(n, d, i - 1, BNorm(<<k>> \o q),
                      BSub(r2, BNorm(BMulSmall(d, k, 0))))

\* <<n div d, n mod d>> for d > 0
BDivMod(n, d) == BDivStep(n, d, Len(n), <<>>, <<>>)

BHalf(a) == BDivMod(a, <<2>>)[1]

\* a float of value m * 2^e
Float(m, e) == [m |-> m, e |-> e]

FZero == Float(<<>>, 0)

FOne == Float(BOne, 0)

\* float(k) for an int 0 <= k < 2^31
FFromInt(k) == Float(BFromInt(k), 0)

\* a significand that rounding up has carried to 54 bits is halved
FNormal(m, e) ==
    IF BBitLen(m) = MantBits + 1 THEN Float(BHalf(m), e + 1) ELSE Float(m, e)

\* m * 2^e plus a part cut off that is below (cut = -1), equal to (0) or
\* above (1) one half of the last place: to nearest, ties to even
FNearest(m, cut, e) ==
    FNormal(IF cut > 0 \/ (cut = 0 /\ BBit(m, 0) = 1)
            THEN BAdd(m, BOne)
            ELSE m,
            e)

\* the float nearest to (q + r / d) * 2^e for qr = <<q, r>>, r < d and
\* 2^52 <= q < 2^54
FRoundQR(qr, d, e) ==
    IF BBitLen(qr[1]) = MantBits + 1
    THEN FNearest(BHalf(qr[1]),
                  IF BBit(qr[1], 0) = 0 THEN -1
                  ELSE IF qr[2] = <<>> THEN 0 ELSE 1,
                  e + 1)
    ELSE FNearest(qr[1], BCmp(BMulSmall(qr[2], 2, 0), d), e)

\* the float nearest to (n / d) * 2^e for 2^52 <= n / d < 2^54
FRoundScaled(n, d, e) == FRoundQR(BDivMod(n, d), d, e)

\* the float nearest to (n / d) * 2^e0, where s scales n / d into
\* 2^52 .. 2^54
FRoundShift(n, d, e0, s) ==
    FRoundScaled(IF s >= 0 THEN BShl(n, s) ELSE n,
                 IF s >= 0 THEN d ELSE BShl(d, -s),
                 e0 - s)

\* the float nearest to (n / d) * 2^e0, ties to even, for d > 0
FRound(n, d, e0) ==
    IF n = <<>> THEN FZero
    ELSE FRoundShift(n, d, e0, MantBits - (BBitLen(n) - BBitLen(d)))

\* a / b on floats, b > 0
FDiv(a, b) == FRound(a.m, b.m, a.e - b.e)

\* a * b on floats
FMul(a, b) == FRound(BMul(a.m, b.m), BOne, a.e + b.e)

FMinExp(a, b) == IF a.e < b.e THEN a.e ELSE b.e

\* a.m scaled to the exponent e <= a.e
FScaled(a, e) == BShl(a.m, a.e - e)

FCmpAt(a, b, e) == BCmp(FScaled(a, e), FScaled(b, e))

\* -1, 0 or 1 as a is below, equal to or above b
FCmp(a, b) == FCmpAt(a, b, FMinExp(a, b))

FSubAt(a, b, e) == FRound(BSub(FScaled(a, e), FScaled(b, e)), BOne, e)

\* a - b on floats, a >= b
FSub(a, b) == FSubAt(a, b, FMinExp(a, b))

\* int(a) for a float a >= 0, as a list of limbs
FTrunc(a) ==
    IF a.e >= 0 THEN BShl(a.m, a.e)
    ELSE BDivMod(a.m, BShl(BOne, -a.e))[1]

\* n / d on ints (true division, lines 63 and 128)
FQuot(q) == FDiv(FFromInt(q.num), FFromInt(q.den))

\* the truth values `random.random() < q` can take: random() is in [0, 1)
RandomBelow(q) == {b \in BOOLEAN : (b => q.num > 0) /\ (~b => q.num < q.den)}

-----------------------------------------------------------------------------
(* Cards as the runner passes them: two-character tokens, rank then suit.  *)

Card(r, s) == <<r, s>>

\* value_map (lines 98-100), applied to card[0]
value_map ==
    [r \in {"2", "3", "4", "5", "6", "7", "8", "9", "T", "J", "Q", "K", "A"} |->
        CASE r = "2" -> 2  [] r = "3" -> 3  [] r = "4" -> 4  [] r = "5" -> 5
          [] r = "6" -> 6  [] r = "7" -> 7  [] r = "8" -> 8  [] r = "9" -> 9
          [] r = "T" -> 10 [] r = "J" -> 11 [] r = "Q" -> 12 [] r = "K" -> 13
          [] r = "A" -> 14]

\* [value_map[card[0]] for card in cards]
card_values(cards) == [i \in 1..Len(cards) |-> value_map[cards[i][1]]]

\* number of trials of one estimate (10000 at line 111, scaled down)
num_simulations == 2

\* copies of each rank in the deck (line 105)
deck_copies == 4

\* deck = list(range(2, 15)) * 4
full_deck == [i \in 1..(13 * deck_copies) |-> 2 + ((i - 1) % 13)]

\* for value in known: deck.remove(value)
RECURSIVE remove_all(_, _)
remove_all(d, known) ==
    IF known = <<>> THEN d
    ELSE remove_all(Remove(d, known[1]), Tail(known))

\* the lists random.sample(population, k) can return: k positions drawn
\* without replacement, so no value more often than the population holds it
Sample(population, k) ==
    {s \in [1..k -> Range(population)] :
        \A v \in Range(s) : Count(s, v) <= Count(population, v)}

\* line 140: expected_value = pot_equity * (pot_odds / (1 - pot_odds))
expected_value(pot_odds, pot_equity) ==
    FMul(pot_equity, FDiv(pot_odds, FSub(FOne, pot_odds)))

\* line 142: max(min_cost, min(max_cost, raise_amount)), raise_amount >= 0 a
\* list of limbs
clamp_raise(min_cost, max_cost, raise_amount) ==
    IF BCmp(raise_amount, BFromInt(max_cost)) >= 0
    THEN (IF min_cost > max_cost THEN min_cost ELSE max_cost)
    ELSE IF min_cost > BToInt(raise_amount) THEN min_cost
    ELSE BToInt(raise_amount)

\* calculate_raise_amount (lines 131-143). pot_odds and pot_equity are the
\* floats n / d of the fractions given, 0 <= pot_odds < 1 and
\* 0 <= pot_equity; max_cost >= 0. The float product is cut by int().
calculate_raise_amount(min_cost, max_cost, pot_odds, pot_equity, bluff) ==
    IF bluff
    THEN (min_cost + max_cost) \div 2
    ELSE clamp_raise(min_cost, max_cost,
             FTrunc(FMul(FFromInt(max_cost),
                         expected_value(FQuot(pot_odds), FQuot(pot_equity)))))

-----------------------------------------------------------------------------
(* What the runner can pass to the callbacks.                              *)

\* skeleton.states.STARTING_STACK (imported at line 12)
STARTING_STACK == 400

\* rounds the runner plays (stands for skeleton.states.NUM_ROUNDS)
MaxRounds == 1

\* longest log for which a further get_action call is explored
MaxLogLen == 7

\* hole cards of the observations explored
HoleCards == {<<Card("5", "h"), Card("5", "s")>>}

\* the five community cards of the round; the board shown is a prefix
Runout == <<Card("9", "d"), Card("5", "c"), Card("K", "h"), Card("2", "s"),
            Card("9", "c")>>

\* a Python sequence with its type: a list cannot be hashed, a tuple can
PySeq(type, items) == [type |-> type, items |-> items]

\* the boards explored. Line 93 takes observation["board_cards"] as a list,
\* lines 67 and 150 use it as a dictionary key: the river is explored as a
\* list and as a tuple, the turn as a tuple.
Boards == { PySeq("tuple", SubSeq(Runout, 1, 4)),
            PySeq("tuple", SubSeq(Runout, 1, 5)),
            PySeq("list", SubSeq(Runout, 1, 5)) }

\* betting situations: chips put in on earlier streets (prior), pips of
\* this street, legal actions and raise bounds
Betting ==
    { [prior |-> 2, my_pip |-> 0, opp_pip |-> 0,
       legal_actions |-> {"CheckAction", "RaiseAction"},
       min_raise |-> 2, max_raise |-> 398],
      [prior |-> 2, my_pip |-> 0, opp_pip |-> 2,
       legal_actions |-> {"FoldAction", "CallAction", "RaiseAction"},
       min_raise |-> 4, max_raise |-> 398],
      [prior |-> 100, my_pip |-> 2, opp_pip |-> 4,
       legal_actions |-> {"FoldAction", "CallAction", "RaiseAction"},
       min_raise |-> 6, max_raise |-> 300],
      [prior |-> 2, my_pip |-> 0, opp_pip |-> 398,
       legal_actions |-> {"FoldAction", "CallAction"},
       min_raise |-> 0, max_raise |-> 0] }

Observations ==
    { [my_cards      |-> h,
       board_cards   |-> board,
       my_stack      |-> STARTING_STACK - b.prior - b.my_pip,
       opp_stack     |-> STARTING_STACK - b.prior - b.opp_pip,
       my_pip        |-> b.my_pip,
       opp_pip       |-> b.opp_pip,
       my_bankroll   |-> 0,
       legal_actions |-> b.legal_actions,
       min_raise     |-> b.min_raise,
       max_raise     |-> b.max_raise] :
      h \in HoleCards, board \in Boards, b \in Betting }

NoObservation == [my_cards |-> <<>>]

None == [kind |-> "None"]

Action(type, amount) == [kind |-> "action", type |-> type, amount |-> amount]

\* an exception of the given type leaving the given callback
Raised(type, callback) == [type |-> type, callback |-> callback]

NotRaised == Raised("none", "none")

\* the default_factory value of opponent_model (line 26)
Half == Rat(1, 2)

-----------------------------------------------------------------------------
(* Player.__init__ (lines 21-26) and the callbacks.                        *)

InitPlayer ==
    /\ log = <<>>
    /\ opponent_model = << >>
    /\ pc = "idle"
    /\ in_round = FALSE
    /\ round_num = 0
    /\ observation = NoObservation
    /\ deck = <<>>
    /\ my_values = <<>>
    /\ board_values = <<>>
    /\ opponent_hand = <<>>
    /\ remaining_cards = <<>>
    /\ community_cards = <<>>
    /\ win_count = 0
    /\ trial = 0
    /\ hand_strength = None
    /\ ret = None
    /\ raised = NotRaised

mcLocals == <<deck, my_values, board_values, opponent_hand, remaining_cards,
              community_cards, win_count, trial>>

\* handle_new_round (lines 28-34)
HandleNewRound ==
    /\ pc = "idle"
    /\ ~in_round
    /\ round_num < MaxRounds
    /\ log' = <<"================================", "new round">>
    /\ in_round' = TRUE
    /\ round_num' = round_num + 1
    /\ observation' = NoObservation
    /\ ret' = None
    /\ UNCHANGED <<opponent_model, pc, mcLocals, hand_strength, raised>>
    /\ UNCHANGED evalVars

\* handle_round_over (lines 36-43) with update_opponent_model (lines 145-160).
\* With the opponent's hand revealed, update_opponent_model calls
\* evaluate_hand on card tokens, and `card % 4` on a token raises TypeError
\* before anything is written.
HandleRoundOver ==
    /\ pc = "idle"
    /\ in_round
    /\ \E revealed \in BOOLEAN :
        IF revealed
        THEN /\ raised' = Raised("TypeError", "handle_round_over")
             /\ pc' = "crashed"
             /\ UNCHANGED <<log, opponent_model, in_round, observation, ret>>
        ELSE /\ log' = log \o <<"game over",
                                "================================\n">>
             /\ ret' = [kind |-> "log", log |-> log']
             /\ in_round' = FALSE
             /\ observation' = NoObservation
             /\ UNCHANGED <<opponent_model, pc, raised>>
    /\ UNCHANGED <<round_num, mcLocals, hand_strength>>
    /\ UNCHANGED evalVars

\* get_action, lines 49-57: the log lines written before the estimate
GetActionBegin ==
    /\ pc = "idle"
    /\ in_round
    /\ Len(log) + 5 <= MaxLogLen
    /\ \E obs \in Observations :
        /\ observation' = obs
        /\ log' = log \o
             << <<"My cards: ", obs.my_cards>>,
                <<"Board cards: ", obs.board_cards>>,
                <<"My stack: ", obs.my_stack>>,
                <<"My contribution: ", STARTING_STACK - obs.my_stack>>,
                <<"My bankroll: ", obs.my_bankroll>> >>
    /\ pc' = "estimate"
    /\ ret' = None
    /\ UNCHANGED <<opponent_model, in_round, round_num, mcLocals,
                   hand_strength, raised>>
    /\ UNCHANGED evalVars

\* monte_carlo_hand_strength, lines 97-111: values, deck, counters
MonteCarloBegin ==
    /\ pc = "estimate"
    /\ my_values' = card_values(observation.my_cards)
    /\ board_values' = card_values(observation.board_cards.items)
    /\ deck' = remove_all(full_deck, my_values' \o board_values')
    /\ win_count' = 0
    /\ trial' = 0
    /\ pc' = "loop"
    /\ UNCHANGED <<log, opponent_model, in_round, round_num, observation,
                   opponent_hand, remaining_cards, community_cards,
                   hand_strength, ret, raised>>
    /\ UNCHANGED evalVars

\* mutant of SampleOpponent: the opponent's cards are taken out of the deck
\* itself, so the next trial starts from a smaller deck
SampleOpponentPop ==
    /\ pc = "loop"
    /\ trial < num_simulations
    /\ \E s \in Sample(deck, 2) :
        /\ opponent_hand' = s
        /\ deck' = remove_all(deck, s)
        /\ remaining_cards' = deck'
    /\ pc' = "community"
    /\ UNCHANGED <<log, opponent_model, in_round, round_num, observation,
                   my_values, board_values, community_cards,
                   win_count, trial, hand_strength, ret, raised>>
    /\ UNCHANGED evalVars

\* lines 114-115: the opponent's hand and the cards left for the board
SampleOpponent ==
    /\ pc = "loop"
    /\ trial < num_simulations
    /\ \E s \in Sample(deck, 2) :
        /\ opponent_hand' = s
        /\ remaining_cards' = SelectSeq(deck, LAMBDA card : ~In(card, s))
    /\ pc' = "community"
    /\ UNCHANGED <<log, opponent_model, in_round, round_num, observation,
                   deck, my_values, board_values, community_cards,
                   win_count, trial, hand_strength, ret, raised>>
    /\ UNCHANGED evalVars

\* mutant of SampleCommunity: the community cards are drawn from the deck,
\* not from the cards left after the opponent's hand
SampleCommunityFromDeck ==
    /\ pc = "community"
    /\ \E s \in Sample(deck, 5 - Len(board_values)) :
        community_cards' = board_values \o s
    /\ pc' = "evaluate"
    /\ UNCHANGED <<log, opponent_model, in_round, round_num, observation,
                   deck, my_values, board_values, opponent_hand,
                   remaining_cards, win_count, trial, hand_strength, ret,
                   raised>>
    /\ UNCHANGED evalVars

\* line 118: the rest of the community cards
SampleCommunity ==
    /\ pc = "community"
    /\ \E s \in Sample(remaining_cards, 5 - Len(board_values)) :
        community_cards' = board_values \o s
    /\ pc' = "evaluate"
    /\ UNCHANGED <<log, opponent_model, in_round, round_num, observation,
                   deck, my_values, board_values, opponent_hand,
                   remaining_cards, win_count, trial, hand_strength, ret,
                   raised>>
    /\ UNCHANGED evalVars

\* mutant of EvaluateTrial: a tie is counted as a win
EvaluateTrialTiesWin ==
    /\ pc = "evaluate"
    /\ LET my_hand_rank == evaluate_hand(my_values, community_cards).value
           opponent_hand_rank ==
               evaluate_hand(opponent_hand, community_cards).value
       IN  win_count' = IF my_hand_rank >= opponent_hand_rank
                        THEN win_count + 1
                        ELSE win_count
    /\ trial' = trial + 1
    /\ opponent_hand' = <<>>
    /\ remaining_cards' = <<>>
    /\ community_cards' = <<>>
    /\ pc' = "loop"
    /\ UNCHANGED <<log, opponent_model, in_round, round_num, observation,
                   deck, my_values, board_values, hand_strength, ret, raised>>
    /\ UNCHANGED evalVars

\* lines 121-125: both hands are ranked and the trial is counted. The
\* trial's lists are rebound before the next trial reads them, so the model
\* drops them here.
EvaluateTrial ==
    /\ pc = "evaluate"
    /\ LET my_hand_rank == evaluate_hand(my_values, community_cards).value
           opponent_hand_rank ==
               evaluate_hand(opponent_hand, community_cards).value
       IN  win_count' = IF my_hand_rank > opponent_hand_rank
                        THEN win_count + 1
                        ELSE win_count
    /\ trial' = trial + 1
    /\ opponent_hand' = <<>>
    /\ remaining_cards' = <<>>
    /\ community_cards' = <<>>
    /\ pc' = "loop"
    /\ UNCHANGED <<log, opponent_model, in_round, round_num, observation,
                   deck, my_values, board_values, hand_strength, ret, raised>>
    /\ UNCHANGED evalVars

\* lines 128-129: the loop is over, the estimate is returned: the float
\* win_count / num_simulations, kept as the two ints it is the quotient of
MonteCarloReturn ==
    /\ pc = "loop"
    /\ trial >= num_simulations
    /\ hand_strength' = Rat(win_count, num_simulations)
    /\ deck' = <<>>
    /\ my_values' = <<>>
    /\ board_values' = <<>>
    /\ win_count' = 0
    /\ trial' = 0
    /\ pc' = "decide"
    /\ UNCHANGED <<log, opponent_model, in_round, round_num, observation,
                   opponent_hand, remaining_cards, community_cards, ret,
                   raised>>
    /\ UNCHANGED evalVars

\* hash(key), which a dictionary lookup takes first: a list has none
Hashable(key) == key.type # "list"

\* opponent_model[key] on a defaultdict (line 67): an unhashable key raises
\* TypeError and leaves the dictionary as it is, a missing key is inserted
\* with the default value
model_lookup(model, key) ==
    IF ~Hashable(key)
    THEN [raises |-> "TypeError", model |-> model]
    ELSE IF \E i \in 1..Len(model) : model[i][1] = key
    THEN [raises |-> "none", model |-> model]
    ELSE [raises |-> "none", model |-> Append(model, <<key, Half>>)]

model_value(model, key) ==
    model[CHOOSE i \in 1..Len(model) : model[i][1] = key][2]

\* get_action, lines 63-80 (lines 82-91 follow two returns and never run)
GetActionDecide ==
    /\ pc = "decide"
    /\ LET continue_cost == observation.opp_pip - observation.my_pip
           opp_contribution == STARTING_STACK - observation.opp_stack
           pot_odds == Rat(continue_cost,
                           continue_cost + opp_contribution
                             + observation.opp_pip)
           pot_equity == hand_strength
           looked_up == model_lookup(opponent_model, observation.board_cards)
           opponent_action_probability ==
               model_value(looked_up.model, observation.board_cards)
           min_cost == observation.min_raise - observation.my_pip
           max_cost == observation.max_raise - observation.my_pip
       IN  IF pot_odds.den = 0
           THEN /\ raised' = Raised("ZeroDivisionError", "get_action")
                /\ pc' = "crashed"
                /\ UNCHANGED <<opponent_model, ret>>
           ELSE IF looked_up.raises # "none"
           THEN /\ raised' = Raised(looked_up.raises, "get_action")
                /\ pc' = "crashed"
                /\ UNCHANGED <<opponent_model, ret>>
           ELSE /\ opponent_model' = looked_up.model
                /\ raised' = NotRaised
                /\ pc' = "idle"
                /\ IF FCmp(FQuot(pot_equity), FQuot(pot_odds)) > 0
                   THEN \E coin \in RandomBelow(
                               Rat(opponent_action_probability.den
                                     - opponent_action_probability.num,
                                   opponent_action_probability.den)) :
                          IF "RaiseAction" \in observation.legal_actions
                               /\ coin
                          THEN ret' = Action("RaiseAction",
                                   calculate_raise_amount(min_cost, max_cost,
                                       pot_odds, pot_equity, FALSE))
                          ELSE ret' = Action("CallAction", 0)
                   ELSE ret' = Action("FoldAction", 0)
    /\ hand_strength' = None
    /\ UNCHANGED <<log, in_round, round_num, observation, mcLocals>>
    /\ UNCHANGED evalVars

InitEvalIdle ==
    /\ hand = <<>>
    /\ community = <<>>
    /\ result = None
    /\ first_result = None
    /\ pcE = "unused"
    /\ rearranged = 0

Init == InitPlayer /\ InitEvalIdle

Next ==
    \/ HandleNewRound
    \/ HandleRoundOver
    \/ GetActionBegin
    \/ MonteCarloBegin
    \/ SampleOpponent
    \/ SampleCommunity
    \/ EvaluateTrial
    \/ MonteCarloReturn
    \/ GetActionDecide

Spec == Init /\ [][Next]_vars


-----------------------------------------------------------------------------
(* SpecEval: evaluate_hand applied to bounded inputs. A card is            *)
(* 4 * value + suit, as lines 171-172 decode it.                           *)

\* rearrangements applied to one input before it is left alone
MaxRearrange == 1

\* the cards inputs are dealt from: 2..7 of suit 0, the other three 2s,
\* and the 3 of suit 1
EvalPool ==
    {4 * v : v \in 2..7} \cup {4 * 2 + s : s \in 1..3} \cup {4 * 3 + 1}

\* the numbers of cards dealt
InputSizes == 0..7

\* a set of cards as an ascending list
RECURSIVE AscList(_)
AscList(S) ==
    IF S = {} THEN <<>>
    ELSE LET m == SetMin(S) IN <<m>> \o AscList(S \ {m})

\* the lists dealt: every set of pool cards of an input size, and the lists
\* of two to four cards whose last card repeats the first
InputLists ==
    LET dealt == {AscList(S) : S \in {T \in SUBSET EvalPool :
                                          Cardinality(T) \in InputSizes}}
    IN  dealt \cup {[l EXCEPT ![Len(l)] = l[1]] :
                       l \in {d \in dealt : Len(d) \in 2..4}}

InitEval ==
    /\ InitPlayer
    /\ \E l \in InputLists :
        LET k == IF Len(l) < 2 THEN Len(l) ELSE 2
        IN  /\ hand = SubSeq(l, 1, k)
            /\ community = SubSeq(l, k + 1, Len(l))
    /\ result = None
    /\ first_result = None
    /\ pcE = "input"
    /\ rearranged = 0

\* a call of evaluate_hand(hand, community)
EvaluateCall ==
    /\ pcE = "input"
    /\ result' = evaluate_hand(hand, community)
    /\ first_result' = IF rearranged = 0 THEN result' ELSE first_result
    /\ pcE' = "done"
    /\ UNCHANGED <<hand, community, rearranged>>
    /\ UNCHANGED playerVars

\* the caller exchanges two cards of the combined input
SwapCards ==
    /\ pcE = "done"
    /\ rearranged < MaxRearrange
    /\ LET all == hand \o community
       IN  \E i \in 1..Len(all), j \in 1..Len(all) :
            /\ i < j
            /\ all[i] # all[j]
            /\ LET swapped == [all EXCEPT ![i] = all[j], ![j] = all[i]]
               IN  /\ hand' = SubSeq(swapped, 1, Len(hand))
                   /\ community' = SubSeq(swapped, Len(hand) + 1, Len(all))
    /\ rearranged' = rearranged + 1
    /\ pcE' = "input"
    /\ UNCHANGED <<result, first_result>>
    /\ UNCHANGED playerVars

\* the caller moves the last card of hand to the front of community_cards,
\* or the first card of community_cards to the end of hand
MoveCard ==
    /\ pcE = "done"
    /\ rearranged < MaxRearrange
    /\ \/ /\ hand # <<>>
          /\ hand' = SubSeq(hand, 1, Len(hand) - 1)
          /\ community' = <<hand[Len(hand)]>> \o community
       \/ /\ community # <<>>
          /\ hand' = Append(hand, Head(community))
          /\ community' = Tail(community)
    /\ rearranged' = rearranged + 1
    /\ pcE' = "input"
    /\ UNCHANGED <<result, first_result>>
    /\ UNCHANGED playerVars

NextEval ==
    \/ EvaluateCall
    \/ SwapCards
    \/ MoveCard

SpecEval == InitEval /\ [][NextEval]_vars


-----------------------------------------------------------------------------
(* Reference notions the claims are stated with.                           *)

\* standard poker category of five distinct cards: 8 straight flush,
\* 7 four of a kind, 6 full house, 5 flush, 4 straight, 3 three of a kind,
\* 2 two pair, 1 one pair, 0 high card
Category(cards) ==
    LET vs       == {cards[i] \div 4 : i \in 1..5}
        ss       == {cards[i] % 4 : i \in 1..5}
        cnt(v)   == Cardinality({i \in 1..5 : cards[i] \div 4 = v})
        flush    == Cardinality(ss) = 1
        straight == Cardinality(vs) = 5 /\ SetMax(vs) - SetMin(vs) = 4
    IN  CASE flush /\ straight                   -> 8
          [] \E v \in vs : cnt(v) = 4            -> 7
          [] Cardinality(vs) = 2                 -> 6
          [] flush                               -> 5
          [] straight                            -> 4
          [] \E v \in vs : cnt(v) = 3            -> 3
          [] Cardinality(vs) = 3                 -> 2
          [] Cardinality(vs) = 4                 -> 1
          [] OTHER                               -> 0

\* the five-card hands of the pool
FiveCardHands == {AscList(S) : S \in {T \in SUBSET EvalPool : Cardinality(T) = 5}}

\* the five-card subsets of a list of distinct cards
FiveOf(cards) == {AscList(S) : S \in {T \in SUBSET Range(cards) : Cardinality(T) = 5}}

Distinct(cards) == Cardinality(Range(cards)) = Len(cards)

KnownCards == observation.my_cards \o observation.board_cards.items

InTrial == pc \in {"loop", "community", "evaluate"}

\* the community cards sampled in the running trial
SampledCommunity ==
    SubSeq(community_cards, Len(board_values) + 1, Len(community_cards))

-----------------------------------------------------------------------------
(* Claims.                                                                 *)

\* C1: of two valid five-card hands, the one in the higher poker category
\* gets the strictly greater strength from evaluate_hand.
C1_CategoryOrder ==
    (pcE = "done" /\ rearranged = 0 /\ Len(hand \o community) = 5
        /\ Distinct(hand \o community))
    => \A other \in FiveCardHands :
          Category(hand \o community) > Category(other)
          => result.value > evaluate_hand(<<>>, other).value

\* C2: on seven distinct cards evaluate_hand returns the maximum of the
\* strengths it returns on the 21 five-card subsets.
C2_BestFiveOfSeven ==
    (pcE = "done" /\ Len(hand \o community) = 7
        /\ Distinct(hand \o community))
    => /\ result.raises = "none"
       /\ result.value =
            SetMax({evaluate_hand(<<>>, five).value :
                       five \in FiveOf(hand \o community)})

\* C3: get_action returns an action for every observation, so that no
\* exception leaves it, and the action it returns is of a type in the
\* observation's legal_actions.
C3_ActionIsLegal ==
    /\ raised.callback # "get_action"
    /\ (pc = "idle" /\ ret.kind = "action")
         => ret.type \in observation.legal_actions

\* C4: in a trial the known cards, the opponent's sampled cards and the
\* sampled community cards together use no card of the deck more than once:
\* no rank occurs among them more often than the deck holds it.
C4_SampledWithoutReplacement ==
    (pc \in {"community", "evaluate"})
    => \A v \in 2..14 :
          Count(my_values \o board_values \o opponent_hand
                  \o SampledCommunity, v) <= deck_copies

\* C4 witness: a trial in which the opponent and the sampled community card
\* complete the use of a rank the known cards share.
C4_Witness ==
    /\ pc = "evaluate"
    /\ Len(SampledCommunity) >= 1
    /\ \E v \in 2..14 :
          /\ In(v, my_values)
          /\ In(v, opponent_hand)
          /\ Count(my_values \o board_values \o opponent_hand, v)
               = deck_copies

\* C5: the deck has 52 minus the known cards, and the pool the community
\* cards are drawn from is that deck minus exactly the two opponent cards.
C5_PoolSizes ==
    /\ InTrial => Len(deck) = 13 * deck_copies - Len(KnownCards)
    /\ pc \in {"community", "evaluate"}
         => Len(remaining_cards) = 13 * deck_copies - Len(KnownCards) - 2

\* C6: evaluate_hand returns the same outcome however the cards are ordered
\* inside the two lists or divided between them.
C6_PermutationInvariant ==
    pcE = "done" => result = first_result

\* C6 witness: seven cards evaluated again after a rearrangement.
C6_Witness ==
    /\ pcE = "done"
    /\ rearranged >= 1
    /\ Len(hand \o community) = 7
    /\ hand \o community # AscList(Range(hand \o community))
    /\ result.raises = "none"

\* C7: a returned RaiseAction carries an amount within
\* [min_raise, max_raise] of the observation.
C7_RaiseWithinBounds ==
    (pc = "idle" /\ ret.kind = "action" /\ ret.type = "RaiseAction")
    => /\ observation.min_raise <= ret.amount
       /\ ret.amount <= observation.max_raise

\* C8: the estimate runs exactly num_simulations trials, counts a trial as
\* a win if and only if the agent's strength is strictly greater than the
\* opponent's, keeps 0 <= win_count <= trials completed, and returns
\* win_count / num_simulations, a value in [0, 1].
C8_TrialsAndWins ==
    /\ [](InTrial => /\ 0 <= win_count
                     /\ win_count <= trial
                     /\ trial <= num_simulations)
    /\ [](pc = "decide" => /\ hand_strength.den = num_simulations
                           /\ 0 <= hand_strength.num
                           /\ hand_strength.num <= hand_strength.den
                           /\ FCmp(FQuot(hand_strength), FZero) >= 0
                           /\ FCmp(FQuot(hand_strength), FOne) <= 0)
    /\ [][/\ pc = "evaluate" =>
               /\ trial' = trial + 1
               /\ win_count' =
                    IF evaluate_hand(my_values, community_cards).value
                         > evaluate_hand(opponent_hand, community_cards).value
                    THEN win_count + 1
                    ELSE win_count
          /\ (pc = "loop" /\ pc' = "decide") =>
               /\ trial = num_simulations
               /\ hand_strength' = Rat(win_count, num_simulations)]_vars

\* C8 witness: an estimate returned after both a counted and an uncounted
\* trial.
C8_Witness ==
    /\ pc = "decide"
    /\ 0 < hand_strength.num
    /\ hand_strength.num < hand_strength.den

\* C9: evaluate_hand fails with InvalidHandError on fewer than two cards
\* or on a repeated card.
C9_InvalidHandError ==
    (pcE = "done" /\ (Len(hand \o community) < 2
                        \/ ~Distinct(hand \o community)))
    => result.raises = "InvalidHandError"

\* C10: every trial of every call starts from the deck built from the 52
\* cards and the known cards alone; no step of monte_carlo_hand_strength
\* changes the Player's log or opponent_model, and from one step of the
\* trial loop to the next the deck and the known values stay as built.
C10_NoCarriedState ==
    /\ [](pc = "loop" =>
            deck = remove_all(full_deck, card_values(KnownCards)))
    /\ [][/\ pc \in {"estimate", "loop", "community", "evaluate"} =>
               /\ log' = log
               /\ opponent_model' = opponent_model
          /\ (InTrial /\ pc' \in {"loop", "community", "evaluate"}) =>
               /\ deck' = deck
               /\ board_values' = board_values
               /\ my_values' = my_values]_vars

\* C10 witness: a later trial about to start, after an earlier one sampled
\* from the deck.
C10_Witness ==
    /\ pc = "community"
    /\ trial >= 1
    /\ Len(deck) = 13 * deck_copies - Len(KnownCards)

=============================================================================
